---------------------------- MODULE Spec2Model ----------------------------
(***************************************************************************)
(* A model of util/ranger/checker.go: the conditionChecker that decides    *)
(* whether a filter condition can become an index access condition on one  *)
(* column, and whether the accepted condition must also be kept as a       *)
(* filter (shouldReserve).                                                 *)
(*                                                                         *)
(* A call c.check(e) is one action.  The recursive walk is the RECURSIVE   *)
(* operator check, which threads the mutable field shouldReserve through   *)
(* the calls in Go's evaluation order (left operand first, && short-       *)
(* circuits).  A result is the pair [ok, shouldReserve]: the returned      *)
(* boolean and the value of the field when the call returns.               *)
(***************************************************************************)
EXTENDS Integers, Sequences, FiniteSets

VARIABLES
    colUniqueID,    \* conditionChecker.colUniqueID
    shouldReserve,  \* conditionChecker.shouldReserve
    length,         \* conditionChecker.length
    isFullLength,   \* conditionChecker.isFullLength
    pc,             \* "idle": between calls; "done": check has returned
    cond,           \* the argument of the last call of check
    ret,            \* the value the last call of check returned
    reserveBefore   \* shouldReserve when the last call of check was entered

vars == <<colUniqueID, shouldReserve, length, isFullLength, pc, cond, ret, reserveBefore>>

----------------------------------------------------------------------------
(* Bounds of the model. *)

\* the prefix lengths of the checker are 1..MaxLength and 10
MaxLength == 2
\* constants compared with the column hold at most MaxConstLen bytes
MaxConstLen == 2
\* LIKE patterns hold at most MaxPatLen bytes
MaxPatLen == 3
\* IN lists hold at most MaxInList elements
MaxInList == 2
\* logical nodes (AND, OR, NOT) are nested at most MaxDepth deep
MaxDepth == 2

----------------------------------------------------------------------------
(* Bytes the pattern scan compares with. *)

Percent == 37
Underscore == 95

SeqsUpTo(S, n) == UNION {[1..k -> S] : k \in 0..n}

----------------------------------------------------------------------------
(* The expression tree the checker reads (package expression). *)

FieldType(evalType, collate, chs) ==
    [EvalType |-> evalType, Collate |-> collate, Charset |-> chs]

Column(id, tp) == [tag |-> "Column", UniqueID |-> id, RetType |-> tp]

\* A Datum: its kind, its bytes (KindString, KindBytes) and its int64 (KindInt64).
Datum(kind, b, i) == [Kind |-> kind, b |-> b, i |-> i]

\* lazy is "DeferredExpr" or "ParamMarker" when that field of the Constant is
\* not nil, and "none" otherwise.
Constant(value, tp, lazy) ==
    [tag |-> "Constant", Value |-> value, RetType |-> tp, lazy |-> lazy]

\* Collate is what scalar.CharsetAndCollation returns for the function.
ScalarFunction(name, args, collate) ==
    [tag |-> "ScalarFunction", FuncName |-> name, Args |-> args, Collate |-> collate]

\* An Expression that is neither a ScalarFunction, a Column nor a Constant.
CorrelatedColumn == [tag |-> "CorrelatedColumn"]

\* Expression.GetType()
GetType(e) ==
    IF e.tag \in {"Column", "Constant"} THEN e.RetType
    ELSE FieldType("ETInt", "binary", "binary")

\* collate.CompatibleCollate: the general_ci collations are compatible with each
\* other, the utf8 bin collations with each other, any other only with itself.
CompatibleCollate(collate1, collate2) ==
    \/ collate1 \in {"utf8_general_ci", "utf8mb4_general_ci"}
       /\ collate2 \in {"utf8_general_ci", "utf8mb4_general_ci"}
    \/ collate1 \in {"utf8_bin", "utf8mb4_bin"}
       /\ collate2 \in {"utf8_bin", "utf8mb4_bin"}
    \/ collate1 = collate2

RECURSIVE Digits(_)
\* strconv.FormatInt of a non-negative int64, as bytes
Digits(n) == IF n < 10 THEN <<48 + n>> ELSE Append(Digits(n \div 10), 48 + (n % 10))

\* Datum.ToString: the text of a string, bytes or integer datum, an error for
\* the kinds it cannot convert.
ToString(d) ==
    CASE d.Kind \in {"KindString", "KindBytes"} -> [err |-> FALSE, str |-> d.b]
      [] d.Kind = "KindInt64" -> [err |-> FALSE, str |-> Digits(d.i)]
      [] OTHER -> [err |-> TRUE, str |-> <<>>]

RECURSIVE RuneCount(_)
\* utf8.RuneCount over bytes below 0xE0: a lead byte 0xC2..0xDF followed by a
\* continuation byte 0x80..0xBF is one rune of two bytes; any other byte (ASCII,
\* or invalid where it stands) is one rune of one byte.
RuneCount(b) ==
    IF Len(b) = 0 THEN 0
    ELSE IF /\ Len(b) >= 2
            /\ b[1] >= 194 /\ b[1] <= 223
            /\ b[2] >= 128 /\ b[2] <= 191
         THEN 1 + RuneCount(SubSeq(b, 3, Len(b)))
         ELSE 1 + RuneCount(SubSeq(b, 2, Len(b)))

\* GetLengthOfPrefixableConstant(c, tp)
GetLengthOfPrefixableConstant(c, tp) ==
    IF c.lazy # "none" THEN -1
    ELSE IF c.Value.Kind \notin {"KindBytes", "KindString"} THEN -1
    ELSE IF tp.Charset \in {"utf8", "utf8mb4"} THEN RuneCount(c.Value.b)
    ELSE Len(c.Value.b)

----------------------------------------------------------------------------
(* conditionChecker *)

Result(ok, reserve) == [ok |-> ok, shouldReserve |-> reserve]

Checker(id, reserve, len, full) ==
    [colUniqueID |-> id, shouldReserve |-> reserve, length |-> len, isFullLength |-> full]

\* c with its field shouldReserve as a call left it
After(c, r) == [c EXCEPT !.shouldReserve = r.shouldReserve]

\* c.checkColumn(expr)
checkColumn(c, expr) ==
    IF expr.tag # "Column" THEN FALSE ELSE c.colUniqueID = expr.UniqueID

\* mutants of reserveUnlessFullLength
reserveUnlessFullLength_assign(c) == ~c.isFullLength
reserveUnlessFullLength_never(c) == c.shouldReserve
reserveUnlessFullLength_always(c) == TRUE

\* if !c.isFullLength { c.shouldReserve = true }: the field afterwards
reserveUnlessFullLength(c) == IF ~c.isFullLength THEN TRUE ELSE c.shouldReserve

\* mutant of acceptNE
acceptNE_le(c, constLen) == constLen # -1 /\ constLen <= c.length

\* return constLen != -1 && constLen < c.length
acceptNE(c, constLen) == constLen # -1 /\ constLen < c.length

\* mutant of isTruncated
isTruncated_gt(c, constLen) == constLen = -1 \/ constLen > c.length

\* constLen == -1 || constLen >= c.length
isTruncated(c, constLen) == constLen = -1 \/ constLen >= c.length

\* One of the two symmetric blocks of the comparison case: constVal is the
\* operand tested for *expression.Constant, col the other operand.  hit is
\* FALSE when the block does not return and control falls through.
checkCompare(c, scalar, constVal, col) ==
    IF constVal.tag = "Constant" /\ checkColumn(c, col)
    THEN IF /\ GetType(col).EvalType = "ETString"
            /\ ~CompatibleCollate(GetType(col).Collate, scalar.Collate)
         THEN [hit |-> TRUE, res |-> Result(FALSE, c.shouldReserve)]
         ELSE IF c.isFullLength
         THEN [hit |-> TRUE, res |-> Result(TRUE, c.shouldReserve)]
         ELSE LET constLen == GetLengthOfPrefixableConstant(constVal, GetType(col))
              IN  IF scalar.FuncName = "ne"
                  THEN [hit |-> TRUE, res |-> Result(acceptNE(c, constLen), c.shouldReserve)]
                  ELSE [hit |-> TRUE,
                        res |-> Result(TRUE, c.shouldReserve \/ isTruncated(c, constLen))]
    ELSE [hit |-> FALSE, res |-> Result(FALSE, c.shouldReserve)]

\* case ast.EQ, ast.NE, ast.GE, ast.GT, ast.LE, ast.LT, ast.NullEQ
checkComparison(c, scalar) ==
    LET first == checkCompare(c, scalar, scalar.Args[1], scalar.Args[2])
        second == checkCompare(c, scalar, scalar.Args[2], scalar.Args[1])
    IN  IF first.hit THEN first.res
        ELSE IF second.hit THEN second.res
        ELSE Result(FALSE, c.shouldReserve)

\* case ast.IsNull
checkIsNull(c, scalar) ==
    Result(checkColumn(c, scalar.Args[1]), reserveUnlessFullLength(c))

\* case ast.IsTruthWithoutNull, ast.IsFalsity, ast.IsTruthWithNull
checkIsTruth(c, scalar) ==
    IF scalar.Args[1].tag = "Column" /\ scalar.Args[1].RetType.EvalType = "ETString"
    THEN Result(FALSE, c.shouldReserve)
    ELSE Result(checkColumn(c, scalar.Args[1]), reserveUnlessFullLength(c))

\* mutant of checkInElem
checkInElem_skip(c, v, tp) ==
    IF v.tag = "Constant"
    THEN IF ~c.isFullLength
         THEN Result(TRUE, c.shouldReserve
                           \/ isTruncated(c, GetLengthOfPrefixableConstant(v, tp)))
         ELSE Result(TRUE, c.shouldReserve)
    ELSE Result(TRUE, c.shouldReserve)

\* The body of the loop over the IN list for one element v; ok is FALSE when
\* the body returns false.
checkInElem(c, v, tp) ==
    IF v.tag = "Constant"
    THEN IF ~c.isFullLength
         THEN Result(TRUE, c.shouldReserve
                           \/ isTruncated(c, GetLengthOfPrefixableConstant(v, tp)))
         ELSE Result(TRUE, c.shouldReserve)
    ELSE Result(FALSE, c.shouldReserve)

RECURSIVE checkInList(_, _, _)
\* for _, v := range scalar.GetArgs()[1:], from the i-th argument on
checkInList(c, scalar, i) ==
    IF i > Len(scalar.Args) THEN Result(TRUE, c.shouldReserve)
    ELSE LET r == checkInElem(c, scalar.Args[i], GetType(scalar.Args[1]))
         IN  IF ~r.ok THEN r ELSE checkInList(After(c, r), scalar, i + 1)

\* case ast.In
checkIn(c, scalar) ==
    IF ~checkColumn(c, scalar.Args[1]) THEN Result(FALSE, c.shouldReserve)
    ELSE IF /\ GetType(scalar.Args[2]).EvalType = "ETString"
            /\ ~CompatibleCollate(GetType(scalar.Args[1]).Collate, scalar.Collate)
    THEN Result(FALSE, c.shouldReserve)
    ELSE checkInList(c, scalar, 2)

\* mutant of percentReserves
percentReserves_always(i, n) == TRUE

\* if i != len(patternStr)-1, for the '%' at index i of a pattern of n bytes
percentReserves(i, n) == i # n - 1

\* if i == 0 && (patternStr[i] == '%' || patternStr[i] == '_')
leadingWildcard(patternStr, i) == i = 0 /\ patternStr[i + 1] \in {Percent, Underscore}

RECURSIVE scanPattern(_, _, _, _)
\* The loop of checkLikeFunc from index i on (i counts from 0, as in the code).
scanPattern(c, patternStr, escape, i) ==
    IF i >= Len(patternStr) THEN Result(TRUE, c.shouldReserve)
    ELSE IF patternStr[i + 1] = escape
    THEN IF i + 1 < Len(patternStr) - 1
         THEN scanPattern(c, patternStr, escape, i + 2)
         ELSE Result(TRUE, c.shouldReserve)
    ELSE IF leadingWildcard(patternStr, i) THEN Result(FALSE, c.shouldReserve)
    ELSE IF patternStr[i + 1] = Percent
    THEN Result(TRUE, c.shouldReserve \/ percentReserves(i, Len(patternStr)))
    ELSE IF patternStr[i + 1] = Underscore THEN Result(TRUE, TRUE)
    ELSE scanPattern(c, patternStr, escape, i + 1)

\* c.checkLikeFunc(scalar)
checkLikeFunc(c, scalar) ==
    IF ~CompatibleCollate(GetType(scalar.Args[1]).Collate, scalar.Collate)
    THEN Result(FALSE, c.shouldReserve)
    ELSE IF ~checkColumn(c, scalar.Args[1]) THEN Result(FALSE, c.shouldReserve)
    ELSE IF scalar.Args[2].tag # "Constant" THEN Result(FALSE, c.shouldReserve)
    ELSE IF scalar.Args[2].Value.Kind = "KindNull" THEN Result(FALSE, c.shouldReserve)
    ELSE LET patternStr == ToString(scalar.Args[2].Value)
         IN  IF patternStr.err THEN Result(FALSE, c.shouldReserve)
             ELSE IF Len(patternStr.str) = 0 THEN Result(TRUE, c.shouldReserve)
             ELSE scanPattern(c, patternStr.str, scalar.Args[3].Value.i % 256, 0)

\* case ast.Like
checkLike(c, scalar) ==
    checkLikeFunc([c EXCEPT !.shouldReserve = reserveUnlessFullLength(c)], scalar)

\* mutant of notOperandRejected
notOperandRejected_like(arg) == arg.tag # "ScalarFunction"

\* case ast.UnaryNot: the operand is a LIKE, or is no ScalarFunction
notOperandRejected(arg) ==
    IF arg.tag = "ScalarFunction" THEN arg.FuncName = "like" ELSE TRUE

\* mutant of logicBoth
logicBoth_either(r0, r1) == IF r0.ok THEN r0 ELSE r1

\* c.check(args[0]) && c.check(args[1]): r0 is the first call's result and r1
\* the second's, made on the checker as the first call left it
logicBoth(r0, r1) == IF r0.ok THEN r1 ELSE r0

RECURSIVE check(_, _)
RECURSIVE checkScalarFunction(_, _)

\* c.check(condition)
check(c, condition) ==
    CASE condition.tag = "ScalarFunction" -> checkScalarFunction(c, condition)
      [] condition.tag = "Column" ->
            IF condition.RetType.EvalType = "ETString"
            THEN Result(FALSE, c.shouldReserve)
            ELSE Result(checkColumn(c, condition), reserveUnlessFullLength(c))
      [] condition.tag = "Constant" -> Result(TRUE, c.shouldReserve)
      [] OTHER -> Result(FALSE, c.shouldReserve)

\* c.checkScalarFunction(scalar)
checkScalarFunction(c, scalar) ==
    CASE scalar.FuncName \in {"or", "and"} ->
            LET r0 == check(c, scalar.Args[1])
            IN  logicBoth(r0, check(After(c, r0), scalar.Args[2]))
      [] scalar.FuncName \in {"eq", "ne", "ge", "gt", "le", "lt", "nulleq"} ->
            checkComparison(c, scalar)
      [] scalar.FuncName = "isnull" -> checkIsNull(c, scalar)
      [] scalar.FuncName \in {"istrue", "isfalse", "istrue_with_null"} ->
            checkIsTruth(c, scalar)
      [] scalar.FuncName = "not" ->
            IF notOperandRejected(scalar.Args[1])
            THEN Result(FALSE, c.shouldReserve)
            ELSE check(c, scalar.Args[1])
      [] scalar.FuncName = "in" -> checkIn(c, scalar)
      [] scalar.FuncName = "like" -> checkLike(c, scalar)
      [] scalar.FuncName = "getparam" -> Result(TRUE, c.shouldReserve)
      [] OTHER -> Result(FALSE, c.shouldReserve)

----------------------------------------------------------------------------
(* The conditions the checker is called with. *)

StringType == FieldType("ETString", "utf8mb4_bin", "utf8mb4")
LatinType == FieldType("ETString", "latin1_bin", "latin1")
IntType == FieldType("ETInt", "binary", "binary")

\* The target column has UniqueID 1: as a utf8mb4 string, a latin1 string and
\* an integer column.  UniqueID 2 is another column.
TargetString == Column(1, StringType)
TargetInt == Column(1, IntType)
Columns == {TargetString, Column(1, LatinType), TargetInt, Column(2, StringType)}

\* The collations a function is evaluated with.
FuncCollations == {"utf8_bin", "latin1_bin"}

StringConst(b) == Constant(Datum("KindString", b, 0), StringType, "none")
IntConst(i) == Constant(Datum("KindInt64", <<>>, i), IntType, "none")
NullConst == Constant(Datum("KindNull", <<>>, 0), StringType, "none")
\* a datum Datum.ToString cannot convert
OpaqueConst == Constant(Datum("KindInterface", <<>>, 0), StringType, "none")

\* Constants compared with a column: strings over 'a' and the two bytes of a
\* two-byte rune, byte strings, an integer, NULL, a constant with a deferred
\* expression and a parameter marker.
Consts ==
    {StringConst(b) : b \in SeqsUpTo({97, 195, 169}, MaxConstLen)}
    \cup {Constant(Datum("KindBytes", b, 0), StringType, "none") :
             b \in SeqsUpTo({97}, MaxConstLen)}
    \cup {IntConst(1), NullConst,
          Constant(Datum("KindString", <<97>>, 0), StringType, "DeferredExpr"),
          Constant(Datum("KindString", <<97>>, 0), StringType, "ParamMarker")}

CmpOps == {"eq", "ne", "ge", "gt", "le", "lt", "nulleq"}

\* Operand pairs of a comparison: constant and column in either order, and
\* pairs of the wrong shape.
CmpOperands ==
    (Consts \X Columns) \cup (Columns \X Consts)
    \cup {<<IntConst(1), IntConst(1)>>, <<TargetInt, TargetInt>>,
          <<TargetInt, CorrelatedColumn>>}

Comparisons ==
    {ScalarFunction(op, ab, coll) : op \in CmpOps, ab \in CmpOperands, coll \in FuncCollations}

\* LIKE patterns over 'a', '%', '_' and '\'; escape bytes '\', '%' and '_'.
Patterns == SeqsUpTo({97, Percent, Underscore, 92}, MaxPatLen)
Escapes == {92, Percent, Underscore}

Likes ==
    {ScalarFunction("like", <<col, StringConst(p), IntConst(e)>>, coll) :
        col \in {TargetString, Column(2, StringType)}, p \in Patterns,
        e \in Escapes, coll \in FuncCollations}
    \cup {ScalarFunction("like", <<TargetString, p, IntConst(92)>>, "utf8_bin") :
        p \in {NullConst, OpaqueConst, IntConst(1), TargetString}}
    \cup {ScalarFunction("like", <<TargetInt, StringConst(<<97>>), IntConst(92)>>, "utf8_bin")}

\* Elements of an IN list: string constants of one and two characters, an
\* integer, a parameter marker, and a column (not a constant).
InElems ==
    {StringConst(<<97>>), StringConst(<<97, 97>>), IntConst(1),
     Constant(Datum("KindString", <<97>>, 0), StringType, "ParamMarker"),
     Column(2, IntType)}

Ins ==
    {ScalarFunction("in", <<col>> \o list, coll) :
        col \in Columns,
        list \in UNION {[1..k -> InElems] : k \in 1..MaxInList},
        coll \in FuncCollations}

Unaries ==
    {ScalarFunction(f, <<a>>, "binary") :
        f \in {"isnull", "istrue", "isfalse", "istrue_with_null"},
        a \in Columns \cup {IntConst(1)}}
    \cup {ScalarFunction("not", <<a>>, "binary") : a \in {TargetInt, IntConst(1)}}
    \cup {ScalarFunction("getparam", <<IntConst(1)>>, "binary"),
          ScalarFunction("plus", <<TargetInt, IntConst(1)>>, "binary")}

\* The leaves of the logical trees: a LIKE that is accepted and reserves
\* ("a_"), an equality that reserves when the prefix is short, a bare integer
\* column, and a bare string column, which is rejected.
TreeLeaves ==
    {ScalarFunction("like", <<TargetString, StringConst(<<97, Underscore>>), IntConst(92)>>,
                    "utf8_bin"),
     ScalarFunction("eq", <<TargetString, StringConst(<<97, 97>>)>>, "utf8_bin"),
     TargetInt,
     TargetString}

RECURSIVE Trees(_)
\* Trees of logical nodes at most d deep over TreeLeaves; one operand of every
\* AND and OR is a leaf.
Trees(d) ==
    IF d = 0 THEN TreeLeaves
    ELSE LET T == Trees(d - 1)
         IN  T \cup {ScalarFunction("not", <<x>>, "binary") : x \in T}
               \cup {ScalarFunction(op, <<x, l>>, "binary") :
                        op \in {"and", "or"}, x \in T, l \in TreeLeaves}
               \cup {ScalarFunction(op, <<l, x>>, "binary") :
                        op \in {"and", "or"}, x \in T, l \in TreeLeaves}

Conditions ==
    Columns \cup Consts \cup {CorrelatedColumn} \cup Comparisons \cup Likes
    \cup Ins \cup Unaries \cup Trees(MaxDepth)

\* The prefix lengths of the index column.
Lengths == (1..MaxLength) \cup {10}

NoCondition == [tag |-> "none"]

----------------------------------------------------------------------------
(* The state machine. *)

\* A checker as the caller constructs it: for the target column, with
\* shouldReserve unset, in full-length mode or with a prefix length.
Init ==
    /\ colUniqueID = 1
    /\ shouldReserve = FALSE
    /\ length \in Lengths
    /\ isFullLength \in BOOLEAN
    /\ pc = "idle"
    /\ cond = NoCondition
    /\ ret = FALSE
    /\ reserveBefore = FALSE

\* The caller calls c.check(e) with a condition e: the whole recursive walk.
Check ==
    /\ pc = "idle"
    /\ \E e \in Conditions :
          LET r == check(Checker(colUniqueID, shouldReserve, length, isFullLength), e)
          IN  /\ ret' = r.ok
              /\ shouldReserve' = r.shouldReserve
              /\ cond' = e
    /\ reserveBefore' = shouldReserve
    /\ pc' = "done"
    /\ UNCHANGED <<colUniqueID, length, isFullLength>>

\* The caller has read the result and goes on to its next condition with the
\* same checker.
NextCondition ==
    /\ pc = "done"
    /\ pc' = "idle"
    /\ cond' = NoCondition
    /\ ret' = FALSE
    /\ reserveBefore' = FALSE
    /\ UNCHANGED <<colUniqueID, shouldReserve, length, isFullLength>>

Next ==
    \/ Check
    \/ NextCondition

Spec == Init /\ [][Next]_vars

----------------------------------------------------------------------------
(* What the claims speak of, read off the last call. *)

Returned == pc = "done"

IsFunc(e, names) == e.tag = "ScalarFunction" /\ e.FuncName \in names

IsTargetColumn(e) == e.tag = "Column" /\ e.UniqueID = colUniqueID

\* The collation of column col does not stand in the way of function f.
CollationCompatible(col, f) ==
    col.RetType.EvalType = "ETString" => CompatibleCollate(col.RetType.Collate, f.Collate)

\* e compares a Constant with the target column, in either order, under a
\* compatible collation.
ConstantWithTarget(e) ==
    /\ IsFunc(e, CmpOps)
    /\ \/ /\ e.Args[1].tag = "Constant"
          /\ IsTargetColumn(e.Args[2])
          /\ CollationCompatible(e.Args[2], e)
       \/ /\ e.Args[2].tag = "Constant"
          /\ IsTargetColumn(e.Args[1])
          /\ CollationCompatible(e.Args[1], e)

ConstantOperand(e) == IF e.Args[1].tag = "Constant" THEN e.Args[1] ELSE e.Args[2]
ColumnOperand(e) == IF e.Args[1].tag = "Constant" THEN e.Args[2] ELSE e.Args[1]

\* The prefixable length of the constant of such a comparison.
PrefixableLength(e) ==
    GetLengthOfPrefixableConstant(ConstantOperand(e), ColumnOperand(e).RetType)

----------------------------------------------------------------------------
\* C1: a not-equal of a constant and the target column, checked in prefix
\* mode, is accepted exactly when the constant's prefixable length is bounded
\* and strictly below the prefix length, and leaves shouldReserve as it was.
C1_NotEqual ==
    (Returned /\ ConstantWithTarget(cond) /\ cond.FuncName = "ne" /\ ~isFullLength)
    => /\ ret = (PrefixableLength(cond) # -1 /\ PrefixableLength(cond) < length)
       /\ shouldReserve = reserveBefore

\* C1 witness: an accepted not-equal with the constant on the left, on a
\* checker whose shouldReserve was already set.
C1_Witness ==
    /\ Returned /\ ConstantWithTarget(cond) /\ cond.FuncName = "ne" /\ ~isFullLength
    /\ cond.Args[1].tag = "Constant"
    /\ PrefixableLength(cond) = 1 /\ length = 2
    /\ ret /\ reserveBefore /\ shouldReserve

\* C2: every other comparison of a constant and the target column is
\* accepted; in prefix mode shouldReserve becomes true exactly when it was
\* true or the prefixable length is unbounded or at least the prefix length,
\* and in full-length mode it is unchanged.
C2_Comparison ==
    (Returned /\ ConstantWithTarget(cond) /\ cond.FuncName # "ne")
    => /\ ret
       /\ shouldReserve =
            IF isFullLength THEN reserveBefore
            ELSE \/ reserveBefore
                 \/ PrefixableLength(cond) = -1
                 \/ PrefixableLength(cond) >= length

\* C2 witness: a >= with the constant on the right whose prefixable length
\* equals the prefix length sets shouldReserve.
C2_Witness ==
    /\ Returned /\ ConstantWithTarget(cond) /\ cond.FuncName = "ge" /\ ~isFullLength
    /\ cond.Args[2].tag = "Constant"
    /\ PrefixableLength(cond) = length
    /\ ret /\ ~reserveBefore /\ shouldReserve

\* C3: shouldReserve is monotonic: no call of check, on any tree and whether
\* it accepts or rejects, takes it from true to false.  (A recursive call of
\* the walk is a call of check on a subtree, and every subtree of a condition
\* is itself a condition.)
C3_Monotonic == [][shouldReserve => shouldReserve']_vars

\* C3 witness: a rejected logical node, checked in full-length mode on a
\* checker whose shouldReserve was set, leaves it set.
C3_Witness ==
    /\ Returned /\ IsFunc(cond, {"and", "or"}) /\ isFullLength
    /\ reserveBefore /\ shouldReserve /\ ~ret

----------------------------------------------------------------------------
(* LIKE *)

\* e is a LIKE of the target column, under a compatible collation, with a
\* text constant as its pattern.
LikeOnTarget(e) ==
    /\ IsFunc(e, {"like"})
    /\ IsTargetColumn(e.Args[1])
    /\ CompatibleCollate(e.Args[1].RetType.Collate, e.Collate)
    /\ e.Args[2].tag = "Constant"
    /\ e.Args[2].Value.Kind = "KindString"

PatternOf(e) == e.Args[2].Value.b
EscapeOf(e) == e.Args[3].Value.i

\* p is a literal prefix followed by one '%', its last byte.
TrailingPercent(p, esc) ==
    /\ Len(p) >= 2
    /\ p[Len(p)] = Percent
    /\ esc # Percent
    /\ \A i \in 1..(Len(p) - 1) : p[i] \notin {Percent, Underscore, esc}

\* The case of C4: such a LIKE checked with prefix length 10 on a checker
\* whose shouldReserve is false.
C4_Case ==
    /\ Returned /\ LikeOnTarget(cond)
    /\ TrailingPercent(PatternOf(cond), EscapeOf(cond))
    /\ ~isFullLength /\ length = 10 /\ ~reserveBefore

\* C4 as stated: the LIKE is accepted and shouldReserve is still false.
C4_Original == C4_Case => (ret /\ ~shouldReserve)

\* C4 as amended: the LIKE is accepted and shouldReserve is true afterwards
\* (the LIKE case sets it whenever the checker is not in full-length mode).
C4_Amended == C4_Case => (ret /\ shouldReserve)

\* C4 witness: the pattern "aa%" has been checked so.
C4_Witness == C4_Case /\ Len(PatternOf(cond)) = 3 /\ ret

RECURSIVE ActiveEscape(_, _, _)
\* The i-th byte of p (from 1) is the escape byte and is not itself escaped.
ActiveEscape(p, esc, i) ==
    IF i < 1 THEN FALSE ELSE p[i] = esc /\ ~ActiveEscape(p, esc, i - 1)

\* The '%' and '_' of p that no active escape byte precedes.
UnescapedWildcards(p, esc) ==
    {i \in 1..Len(p) : p[i] \in {Percent, Underscore} /\ ~ActiveEscape(p, esc, i - 1)}

\* Those of them that are not the escape byte themselves.
TrueWildcards(p, esc) == {i \in UnescapedWildcards(p, esc) : p[i] # esc}

Least(S) == CHOOSE i \in S : \A j \in S : i <= j

\* The first wildcard among W is '_', or a '%' that is not the last byte.
FirstReserves(p, W) ==
    /\ W # {}
    /\ \/ p[Least(W)] = Underscore
       \/ p[Least(W)] = Percent /\ Least(W) # Len(p)

C5_Case == Returned /\ LikeOnTarget(cond) /\ isFullLength

\* What C5 says of a pattern p whose wildcards are W.
C5_Statement(p, esc, W) ==
    IF Len(p) = 0 THEN ret /\ shouldReserve = reserveBefore
    ELSE /\ ret = ~(p[1] \in {Percent, Underscore} /\ p[1] # esc)
         /\ ret => shouldReserve = (reserveBefore \/ FirstReserves(p, W))

\* C5 as stated: in full-length mode a LIKE is rejected exactly when its
\* pattern starts with a '%' or '_' that is not the escape byte, and an
\* accepted one sets shouldReserve exactly when the first '%' or '_' not
\* preceded by an active escape byte is '_' or a '%' that is not the last byte.
C5_Original ==
    C5_Case =>
        C5_Statement(PatternOf(cond), EscapeOf(cond),
                     UnescapedWildcards(PatternOf(cond), EscapeOf(cond)))

\* C5 as amended: the same, where a wildcard is a '%' or '_' that is neither
\* preceded by an active escape byte nor the escape byte itself.
C5_Amended ==
    C5_Case =>
        C5_Statement(PatternOf(cond), EscapeOf(cond),
                     TrueWildcards(PatternOf(cond), EscapeOf(cond)))

\* C5 witness: a pattern that starts with an escaped byte and goes on to an
\* unescaped '_' is accepted and sets shouldReserve.
C5_Witness ==
    /\ C5_Case
    /\ Len(PatternOf(cond)) = 3
    /\ PatternOf(cond)[1] = EscapeOf(cond)
    /\ PatternOf(cond)[2] = Percent
    /\ PatternOf(cond)[3] = Underscore
    /\ ret /\ ~reserveBefore /\ shouldReserve

----------------------------------------------------------------------------
(* NOT *)

RECURSIVE LikeBelowLogic(_)
\* e is a LIKE, or an AND, OR or NOT with such an operand.
LikeBelowLogic(e) ==
    \/ IsFunc(e, {"like"})
    \/ /\ IsFunc(e, {"and", "or", "not"})
       /\ \E i \in 1..Len(e.Args) : LikeBelowLogic(e.Args[i])

RECURSIVE LikeBelowNots(_)
\* e is a LIKE, or a NOT of such an operand.
LikeBelowNots(e) ==
    \/ IsFunc(e, {"like"})
    \/ IsFunc(e, {"not"}) /\ LikeBelowNots(e.Args[1])

\* C6 as stated: a NOT with a LIKE below it, directly or under AND, OR and
\* NOT nodes, is rejected.
C6_Original ==
    (Returned /\ IsFunc(cond, {"not"}) /\ LikeBelowLogic(cond.Args[1])) => ~ret

\* C6 as amended: a NOT with a LIKE below it, directly or under NOT nodes
\* only, is rejected.
C6_Amended ==
    (Returned /\ IsFunc(cond, {"not"}) /\ LikeBelowNots(cond.Args[1])) => ~ret

\* C6 witness: NOT (NOT (x LIKE p)) has been rejected, where x LIKE p alone
\* is accepted.
C6_Witness ==
    /\ Returned /\ IsFunc(cond, {"not"}) /\ IsFunc(cond.Args[1], {"not"})
    /\ IsFunc(cond.Args[1].Args[1], {"like"})
    /\ check(Checker(colUniqueID, reserveBefore, length, isFullLength),
             cond.Args[1].Args[1]).ok
    /\ ~ret

----------------------------------------------------------------------------
(* IN *)

InOnTarget(e) == IsFunc(e, {"in"}) /\ IsTargetColumn(e.Args[1])

\* C7: an IN on the target column is rejected when the column is string-like
\* and its collation is incompatible with the function's, whatever the types
\* of the list elements.
C7_Claim ==
    ( /\ Returned /\ InOnTarget(cond)
      /\ cond.Args[1].RetType.EvalType = "ETString"
      /\ ~CompatibleCollate(cond.Args[1].RetType.Collate, cond.Collate) )
    => ~ret

\* The collation check of the IN case does not reject.
InCollationPasses(e) ==
    ~ ( /\ GetType(e.Args[2]).EvalType = "ETString"
        /\ ~CompatibleCollate(GetType(e.Args[1]).Collate, e.Collate) )

----------------------------------------------------------------------------
(* AND, OR *)

\* check accepts e on a checker of this column, length and mode whose
\* shouldReserve is f.
Accepts(e, f) == check(Checker(colUniqueID, f, length, isFullLength), e).ok

\* C9: an AND or OR is accepted exactly when each operand is accepted on its
\* own, whatever shouldReserve was, and in either order of the operands.
C9_Logic ==
    (Returned /\ IsFunc(cond, {"and", "or"}))
    => /\ \A f \in BOOLEAN, g \in BOOLEAN :
             ret = (Accepts(cond.Args[1], f) /\ Accepts(cond.Args[2], g))
       /\ \A f \in BOOLEAN :
             ret = Accepts([cond EXCEPT !.Args = <<cond.Args[2], cond.Args[1]>>], f)

\* C9 witness: a node whose first operand, itself an AND or OR, is accepted
\* and whose second operand is rejected has been rejected.
C9_Witness ==
    /\ Returned /\ IsFunc(cond, {"and", "or"})
    /\ IsFunc(cond.Args[1], {"and", "or"})
    /\ Accepts(cond.Args[1], reserveBefore)
    /\ ~Accepts(cond.Args[2], reserveBefore)
    /\ ~ret

RECURSIVE ContainsLike(_)
\* A LIKE node occurs in e.
ContainsLike(e) ==
    /\ e.tag = "ScalarFunction"
    /\ \/ e.FuncName = "like"
       \/ \E i \in 1..Len(e.Args) : ContainsLike(e.Args[i])

\* C10: in full-length mode a call of check on a tree without a LIKE node
\* leaves shouldReserve as it was, accepted or rejected.
C10_FullLengthFrame ==
    (Returned /\ isFullLength /\ ~ContainsLike(cond)) => shouldReserve = reserveBefore

\* C10 witness: an accepted AND or OR without a LIKE, in full-length mode, has
\* left shouldReserve false.
C10_Witness ==
    /\ Returned /\ isFullLength /\ ~ContainsLike(cond)
    /\ IsFunc(cond, {"and", "or"})
    /\ ret /\ ~reserveBefore /\ ~shouldReserve

=============================================================================
